---------------------------- MODULE Spec2Model ----------------------------
(***************************************************************************)
(* Model of the AMI upgrade tool (repository simulate-infra-upgrade).      *)
(*                                                                         *)
(* Strings are sequences of one-character strings, so that the regular     *)
(* expressions, strings.Split, strings.TrimPrefix, strings.ToLower and     *)
(* fmt.Sprintf of the program are computed character by character.         *)
(*                                                                         *)
(* Two specifications:                                                     *)
(*   Spec      the run of main() against a declaration store and a         *)
(*             catalog, re-run by the operator any number of times;        *)
(*   SpecName  ParseAMIName, BuildNodeClassMap and the new-name            *)
(*             construction applied to one image reference.                *)
(***************************************************************************)
EXTENDS Integers, Sequences, FiniteSets

VARIABLES
    \* ---- the run of main() (Spec) ----
    pc,             \* position of main()
    store,          \* the cluster's EC2NodeClass objects (kubectl)
    catalog,        \* the images the owner publishes (aws ec2 describe-images)
    nodeClasses,    \* main: nodeClasses.Items
    k8sVersion,     \* main: k8sVersion
    ownerID,        \* main: ownerID
    nodeclassMap,   \* main: nodeclassMap
    availableAMIs,  \* main: availableAMIs
    versionItems,   \* main: versionItems
    quitting,       \* main: finalModel.quitting
    selectedItem,   \* main: finalModel.choice
    versionDate,    \* main: versionDate
    changes,        \* main: changes
    response,       \* main: response
    applied,        \* main: number of iterations of the apply loop done
    writes,         \* history: the UpdateNodeClass calls of this run, in order
    skipped,        \* history: the records the plan loop skipped, with the reason
    prevDate,       \* history: date-version the previous run applied to every item
    monitor,        \* WaitForNodeClaimsUndrifted: "Idle", "Polling", "Stopped"
    statuses,       \* the status list of the last fetch
    monitorErr,     \* the error WaitForNodeClaimsUndrifted returned
    \* ---- one image reference (SpecName) ----
    stage,          \* "input", "parsed", "named", "reparsed", "renamed"
    gen,            \* how amiName was put together
    ncName,         \* the record's name
    amiName,        \* the record's image reference
    chosen,         \* the chosen date-version
    pattern,        \* ParseAMIName(amiName)
    info,           \* BuildNodeClassMap of the one record, at ncName
    newAMI,         \* the new name
    pattern2,       \* ParseAMIName(newAMI)
    newAMI2         \* the new name built from pattern2

mainVars == <<pc, store, catalog, nodeClasses, k8sVersion, ownerID, nodeclassMap,
              availableAMIs, versionItems, quitting, selectedItem, versionDate,
              changes, response, applied, writes, skipped, prevDate, monitor,
              statuses, monitorErr>>

nameVars == <<stage, gen, ncName, amiName, chosen, pattern, info, newAMI,
              pattern2, newAMI2>>

vars == <<mainVars, nameVars>>

-----------------------------------------------------------------------------
(* Strings *)

Digits == {"0","1","2","3","4","5","6","7","8","9"}

\* The bytes the model's strings are made of, in byte order.
ByteOrder == <<"\n"," ","*","-",".","0","1","2","3","4","5","6","7","8","9",":","A","B","C","D","E","F","G","H","I","J","K","L","M","N","O","P","Q","R","S","T","U","V","W","X","Y","Z","a","b","c","d","e","f","g","h","i","j","k","l","m","n","o","p","q","r","s","t","u","v","w","x","y","z">>

Ord(c) == CHOOSE i \in 1..Len(ByteOrder) : ByteOrder[i] = c

RECURSIVE StrLess(_, _)
\* Go's s < t on strings: byte-wise lexicographic.
StrLess(s, t) ==
    IF t = <<>> THEN FALSE
    ELSE IF s = <<>> THEN TRUE
    ELSE IF Head(s) # Head(t) THEN Ord(Head(s)) < Ord(Head(t))
    ELSE StrLess(Tail(s), Tail(t))

HasPrefix(s, p) == Len(s) >= Len(p) /\ SubSeq(s, 1, Len(p)) = p

\* strings.TrimPrefix
TrimPrefix(s, p) == IF HasPrefix(s, p) THEN SubSeq(s, Len(p) + 1, Len(s)) ELSE s

Upper == <<"A","B","C","D","E","F","G","H","I","J","K","L","M","N","O","P","Q","R","S","T","U","V","W","X","Y","Z">>

LowerOf == <<"a","b","c","d","e","f","g","h","i","j","k","l","m","n","o","p","q","r","s","t","u","v","w","x","y","z">>

\* strings.ToLower
ToLower(s) ==
    [i \in 1..Len(s) |->
        IF \E k \in 1..Len(Upper) : Upper[k] = s[i]
        THEN LowerOf[CHOOSE k \in 1..Len(Upper) : Upper[k] = s[i]]
        ELSE s[i]]

RECURSIVE Split(_, _)
\* strings.Split(s, sep) for a one-byte sep: always at least one part.
Split(s, sep) ==
    IF \A i \in 1..Len(s) : s[i] # sep THEN <<s>>
    ELSE LET k == CHOOSE i \in 1..Len(s) :
                      s[i] = sep /\ \A j \in 1..(i - 1) : s[j] # sep
         IN  <<SubSeq(s, 1, k - 1)>> \o Split(SubSeq(s, k + 1, Len(s)), sep)

RECURSIVE Join(_, _)
\* strings.Join(parts, sep)
Join(parts, sep) ==
    IF parts = <<>> THEN <<>>
    ELSE IF Len(parts) = 1 THEN parts[1]
    ELSE parts[1] \o sep \o Join(Tail(parts), sep)

-----------------------------------------------------------------------------
(* Regular expressions.  Every pattern of the program is ^atom atom ... $,  *)
(* an atom being a byte class with a repetition count, inside at most one   *)
(* capture group.  Repetition is greedy, as in Go's regexp.                 *)

Unbounded == -1

Atom(cls, ch, min, max, grp) ==
    [cls |-> cls, ch |-> ch, min |-> min, max |-> max, grp |-> grp]

\* the literal text s, inside group grp (0: no group)
Lit(s, grp) == [i \in 1..Len(s) |-> Atom("lit", s[i], 1, 1, grp)]

\* [^-]+
NotHyphenPlus(grp) == <<Atom("nothyphen", "-", 1, Unbounded, grp)>>

\* [0-9]+
DigitPlus(grp) == <<Atom("digit", "0", 1, Unbounded, grp)>>

\* [0-9]{8}
Digit8(grp) == <<Atom("digit", "0", 8, 8, grp)>>

\* .*   (the dot matches every byte but the line feed)
DotStar == <<Atom("dot", ".", 0, Unbounded, 0)>>

\* regexp.QuoteMeta(s): s, every byte of it taken literally
QuoteMeta(s) == Lit(s, 0)

InClass(c, a) ==
    CASE a.cls = "lit"       -> c = a.ch
      [] a.cls = "nothyphen" -> c # "-"
      [] a.cls = "digit"     -> c \in Digits
      [] a.cls = "dot"       -> c # "\n"

NoMatch == <<-1>>

RECURSIVE RunLength(_, _, _, _)
\* how many bytes of s from position j on are in atom a's class, up to lim
RunLength(a, s, j, lim) ==
    IF lim = 0 \/ j > Len(s) THEN 0
    ELSE IF ~InClass(s[j], a) THEN 0
    ELSE 1 + RunLength(a, s, j + 1, lim - 1)

\* how many bytes of s from position j on atom a can take at most
MaxRun(a, s, j) ==
    RunLength(a, s, j, IF a.max = Unbounded THEN Len(s) ELSE a.max)

RECURSIVE MatchFrom(_, _, _, _)
RECURSIVE TryCount(_, _, _, _, _)
\* atoms i.. of re against s from position j to its end: the number of bytes
\* each atom takes, or NoMatch
MatchFrom(re, s, i, j) ==
    IF i > Len(re)
    THEN IF j > Len(s) THEN <<>> ELSE NoMatch
    ELSE TryCount(re, s, i, j, MaxRun(re[i], s, j))

\* the longest count first, then shorter ones
TryCount(re, s, i, j, k) ==
    IF k < re[i].min THEN NoMatch
    ELSE LET rest == MatchFrom(re, s, i + 1, j + k)
         IN  IF rest # NoMatch THEN <<k>> \o rest
             ELSE TryCount(re, s, i, j, k - 1)

NumGroups(re) ==
    LET G == {re[i].grp : i \in 1..Len(re)}
    IN  CHOOSE g \in G : \A h \in G : h <= g

RECURSIVE StartOf(_, _)
StartOf(counts, i) == IF i = 1 THEN 1 ELSE StartOf(counts, i - 1) + counts[i - 1]

\* (*Regexp).FindStringSubmatch: <<whole match, group 1, ...>>, or <<>> (nil)
FindStringSubmatch(re, s) ==
    LET counts == MatchFrom(re, s, 1, 1)
        group(g) ==
            LET I  == {i \in 1..Len(re) : re[i].grp = g}
                lo == CHOOSE i \in I : \A h \in I : i <= h
                hi == CHOOSE i \in I : \A h \in I : h <= i
            IN  SubSeq(s, StartOf(counts, lo), StartOf(counts, hi) + counts[hi] - 1)
    IN  IF counts = NoMatch THEN <<>>
        ELSE <<s>> \o [g \in 1..NumGroups(re) |-> group(g)]

-----------------------------------------------------------------------------
(* pkg/nodeclasses *)

\* ^domino-eks-([^-]+)-(1\.[0-9]+)-v([0-9]{8})$
reWithNodegroupVersion ==
    Lit(<<"d","o","m","i","n","o","-","e","k","s","-">>, 0) \o NotHyphenPlus(1) \o Lit(<<"-">>, 0)
        \o Lit(<<"1",".">>, 2) \o DigitPlus(2) \o Lit(<<"-","v">>, 0) \o Digit8(3)

\* ^domino-eks-(1\.[0-9]+)-v([0-9]{8})$
reWithoutNodegroupVersion ==
    Lit(<<"d","o","m","i","n","o","-","e","k","s","-">>, 0) \o Lit(<<"1",".">>, 1) \o DigitPlus(1)
        \o Lit(<<"-","v">>, 0) \o Digit8(2)

\* ^domino-eks-([^-]+)-(1\.[0-9]+)-.*$
reWithNodegroupWildcard ==
    Lit(<<"d","o","m","i","n","o","-","e","k","s","-">>, 0) \o NotHyphenPlus(1) \o Lit(<<"-">>, 0)
        \o Lit(<<"1",".">>, 2) \o DigitPlus(2) \o Lit(<<"-">>, 0) \o DotStar

\* ^domino-eks-(1\.[0-9]+)-.*$
reWithoutNodegroupWildcard ==
    Lit(<<"d","o","m","i","n","o","-","e","k","s","-">>, 0) \o Lit(<<"1",".">>, 1) \o DigitPlus(1)
        \o Lit(<<"-">>, 0) \o DotStar

AMIPattern(hasNodegroup, nodegroup, k8s, version) ==
    [HasNodegroup |-> hasNodegroup, Nodegroup |-> nodegroup,
     K8sVersion |-> k8s, Version |-> version]

\* ParseAMIName's (nil, err)
ParseError == [err |-> TRUE]

IsError(p) == "err" \in DOMAIN p

\* ^domino-eks-([^-]+)-([0-9]\.[0-9]+)-v([0-9]{8})$ and its three companions:
\* the platform version's leading 1 loosened to any digit
ParseAMIName_AnyMajor(name) ==
    LET major(re) == [i \in 1..Len(re) |->
                         IF re[i].cls = "lit" /\ re[i].ch = "1" /\ re[i].grp > 0
                         THEN Atom("digit", "0", 1, 1, re[i].grp) ELSE re[i]]
        m1 == FindStringSubmatch(major(reWithNodegroupVersion), name)
        m2 == FindStringSubmatch(major(reWithoutNodegroupVersion), name)
        m3 == FindStringSubmatch(major(reWithNodegroupWildcard), name)
        m4 == FindStringSubmatch(major(reWithoutNodegroupWildcard), name)
    IN  IF Len(m1) = 4 THEN AMIPattern(TRUE, m1[2], m1[3], m1[4])
        ELSE IF Len(m2) = 3 THEN AMIPattern(FALSE, <<>>, m2[2], m2[3])
        ELSE IF Len(m3) = 3 THEN AMIPattern(TRUE, m3[2], m3[3], <<>>)
        ELSE IF Len(m4) = 2 THEN AMIPattern(FALSE, <<>>, m4[2], <<>>)
        ELSE ParseError

\* the wildcard forms tried before the forms with a version
ParseAMIName_WildcardFirst(name) ==
    LET m1 == FindStringSubmatch(reWithNodegroupVersion, name)
        m2 == FindStringSubmatch(reWithoutNodegroupVersion, name)
        m3 == FindStringSubmatch(reWithNodegroupWildcard, name)
        m4 == FindStringSubmatch(reWithoutNodegroupWildcard, name)
    IN  IF Len(m3) = 3 THEN AMIPattern(TRUE, m3[2], m3[3], <<>>)
        ELSE IF Len(m4) = 2 THEN AMIPattern(FALSE, <<>>, m4[2], <<>>)
        ELSE IF Len(m1) = 4 THEN AMIPattern(TRUE, m1[2], m1[3], m1[4])
        ELSE IF Len(m2) = 3 THEN AMIPattern(FALSE, <<>>, m2[2], m2[3])
        ELSE ParseError

\* the wildcard form with a nodegroup reported without one
ParseAMIName_WildcardNoGroup(name) ==
    LET m1 == FindStringSubmatch(reWithNodegroupVersion, name)
        m2 == FindStringSubmatch(reWithoutNodegroupVersion, name)
        m3 == FindStringSubmatch(reWithNodegroupWildcard, name)
        m4 == FindStringSubmatch(reWithoutNodegroupWildcard, name)
    IN  IF Len(m1) = 4 THEN AMIPattern(TRUE, m1[2], m1[3], m1[4])
        ELSE IF Len(m2) = 3 THEN AMIPattern(FALSE, <<>>, m2[2], m2[3])
        ELSE IF Len(m3) = 3 THEN AMIPattern(FALSE, <<>>, m3[3], <<>>)
        ELSE IF Len(m4) = 2 THEN AMIPattern(FALSE, <<>>, m4[2], <<>>)
        ELSE ParseError

\* ParseAMIName: the four forms in order, the first that matches wins
ParseAMIName(name) ==
    LET m1 == FindStringSubmatch(reWithNodegroupVersion, name)
        m2 == FindStringSubmatch(reWithoutNodegroupVersion, name)
        m3 == FindStringSubmatch(reWithNodegroupWildcard, name)
        m4 == FindStringSubmatch(reWithoutNodegroupWildcard, name)
    IN  IF Len(m1) = 4 THEN AMIPattern(TRUE, m1[2], m1[3], m1[4])
        ELSE IF Len(m2) = 3 THEN AMIPattern(FALSE, <<>>, m2[2], m2[3])
        ELSE IF Len(m3) = 3 THEN AMIPattern(TRUE, m3[2], m3[3], <<>>)
        ELSE IF Len(m4) = 2 THEN AMIPattern(FALSE, <<>>, m4[2], <<>>)
        ELSE ParseError

\* an EC2NodeClass: metadata.name and spec.amiSelectorTerms (none or one term)
EC2NodeClass(name, terms) == [Name |-> name, AMISelectorTerms |-> terms]

SelectorTerm(name, owner) == [Name |-> name, Owner |-> owner]

\* the nodegroup BuildNodeClassMap records for one parsed record
InferNodegroup(name, p) ==
    LET nameParts == Split(name, "-")
    IN  IF ~p.HasNodegroup /\ Len(nameParts) >= 3
           /\ nameParts[1] = <<"d","o","m","i","n","o">> /\ nameParts[2] = <<"e","k","s">>
        THEN Join(SubSeq(nameParts, 3, Len(nameParts)), <<"-">>)
        ELSE p.Nodegroup

\* HasNodegroup set whenever a nodegroup was derived from the record's name
NodeClassInfoOf_Inferred(name, p) ==
    [HasNodegroup |-> p.HasNodegroup \/ InferNodegroup(name, p) # <<>>,
     Nodegroup |-> InferNodegroup(name, p)]

\* the NodeClassInfo BuildNodeClassMap stores for one parsed record
NodeClassInfoOf(name, p) ==
    [HasNodegroup |-> p.HasNodegroup, Nodegroup |-> InferNodegroup(name, p)]

RECURSIVE BuildNodeClassMap_WithNodegroup(_)
\* only the records whose reference names a nodegroup get an entry
BuildNodeClassMap_WithNodegroup(items) ==
    IF items = <<>> THEN <<>>
    ELSE LET nc   == items[Len(items)]
             rest == BuildNodeClassMap_WithNodegroup(SubSeq(items, 1, Len(items) - 1))
             p    == ParseAMIName(nc.AMISelectorTerms[1].Name)
         IN  IF Len(nc.AMISelectorTerms) > 0 /\ ~IsError(p) /\ p.HasNodegroup
             THEN [n \in DOMAIN rest \cup {nc.Name} |->
                      IF n = nc.Name THEN NodeClassInfoOf(nc.Name, p) ELSE rest[n]]
             ELSE rest

RECURSIVE BuildNodeClassMap(_)
\* BuildNodeClassMap: a function from the names of the records with a term
\* that parses to their NodeClassInfo; a later record of the same name wins
BuildNodeClassMap(items) ==
    IF items = <<>> THEN <<>>
    ELSE LET nc   == items[Len(items)]
             rest == BuildNodeClassMap(SubSeq(items, 1, Len(items) - 1))
             p    == ParseAMIName(nc.AMISelectorTerms[1].Name)
         IN  IF Len(nc.AMISelectorTerms) > 0 /\ ~IsError(p)
             THEN [n \in DOMAIN rest \cup {nc.Name} |->
                      IF n = nc.Name THEN NodeClassInfoOf(nc.Name, p) ELSE rest[n]]
             ELSE rest

-----------------------------------------------------------------------------
(* main: the new AMI name *)

\* the two format arguments before the version swapped
NewAMIName_Swapped(p, i, d) ==
    IF i.HasNodegroup
    THEN <<"d","o","m","i","n","o","-","e","k","s","-">> \o p.K8sVersion \o <<"-">> \o i.Nodegroup \o <<"-","v">> \o d
    ELSE <<"d","o","m","i","n","o","-","e","k","s","-">> \o p.K8sVersion \o <<"-","v">> \o d

\* the v before the date-version left out
NewAMIName_NoV(p, i, d) ==
    IF i.HasNodegroup
    THEN <<"d","o","m","i","n","o","-","e","k","s","-">> \o i.Nodegroup \o <<"-">> \o p.K8sVersion \o <<"-">> \o d
    ELSE <<"d","o","m","i","n","o","-","e","k","s","-">> \o p.K8sVersion \o <<"-">> \o d

\* the nodegroup segment written whenever the registry holds a nodegroup
NewAMIName_AnyNodegroup(p, i, d) ==
    IF i.Nodegroup # <<>>
    THEN <<"d","o","m","i","n","o","-","e","k","s","-">> \o i.Nodegroup \o <<"-">> \o p.K8sVersion \o <<"-","v">> \o d
    ELSE <<"d","o","m","i","n","o","-","e","k","s","-">> \o p.K8sVersion \o <<"-","v">> \o d

\* the name main builds from the parsed pattern p, the registry's info i and
\* the date-version d
NewAMIName(p, i, d) ==
    IF i.HasNodegroup
    THEN <<"d","o","m","i","n","o","-","e","k","s","-">> \o i.Nodegroup \o <<"-">> \o p.K8sVersion \o <<"-","v">> \o d
    ELSE <<"d","o","m","i","n","o","-","e","k","s","-">> \o p.K8sVersion \o <<"-","v">> \o d

-----------------------------------------------------------------------------
(* pkg/amis *)

AMIInfo(name, id, created) == [Name |-> name, ImageID |-> id, CreationDate |-> created]

VersionItem(version, date) == [Version |-> version, Date |-> date]

\* ^domino-eks-.*-<k8sVersion>-v([0-9]{8})$
patternWithNodegroup(k8s) ==
    Lit(<<"d","o","m","i","n","o","-","e","k","s","-">>, 0) \o DotStar \o Lit(<<"-">>, 0) \o QuoteMeta(k8s)
        \o Lit(<<"-","v">>, 0) \o Digit8(1)

\* the k8s version asked for is not looked at
patternWithoutNodegroup_AnyVersion(k8s) ==
    Lit(<<"d","o","m","i","n","o","-","e","k","s","-","1",".">>, 0) \o DigitPlus(0) \o Lit(<<"-","v">>, 0) \o Digit8(1)

\* ^domino-eks-<k8sVersion>-v([0-9]{8})$
patternWithoutNodegroup(k8s) ==
    Lit(<<"d","o","m","i","n","o","-","e","k","s","-">>, 0) \o QuoteMeta(k8s) \o Lit(<<"-","v">>, 0) \o Digit8(1)

\* the submatches ExtractVersions ends with for one image name
VersionMatches(name, k8s) ==
    LET m == FindStringSubmatch(patternWithNodegroup(k8s), name)
    IN  IF Len(m) # 2 THEN FindStringSubmatch(patternWithoutNodegroup(k8s), name) ELSE m

RECURSIVE VersionSet_KeepFirst(_, _)
\* the date of a version is never replaced
VersionSet_KeepFirst(amis, k8s) ==
    IF amis = <<>> THEN <<>>
    ELSE LET ami     == amis[Len(amis)]
             before  == VersionSet_KeepFirst(SubSeq(amis, 1, Len(amis) - 1), k8s)
             matches == VersionMatches(ami.Name, k8s)
             version == matches[2]
         IN  IF Len(matches) = 2 /\ version \notin DOMAIN before
             THEN [v \in DOMAIN before \cup {version} |->
                      IF v = version THEN ami.CreationDate ELSE before[v]]
             ELSE before

RECURSIVE VersionSet(_, _)
\* ExtractVersions' versionSet after the loop over amis: version -> date
VersionSet(amis, k8s) ==
    IF amis = <<>> THEN <<>>
    ELSE LET ami     == amis[Len(amis)]
             before  == VersionSet(SubSeq(amis, 1, Len(amis) - 1), k8s)
             matches == VersionMatches(ami.Name, k8s)
             version == matches[2]
         IN  IF Len(matches) = 2
                /\ (version \notin DOMAIN before
                    \/ StrLess(before[version], ami.CreationDate))
             THEN [v \in DOMAIN before \cup {version} |->
                      IF v = version THEN ami.CreationDate ELSE before[v]]
             ELSE before

DigitVal(c) == Ord(c) - Ord("0")

IsDigits(s) == \A i \in 1..Len(s) : s[i] \in Digits

RECURSIVE Atoi(_)
Atoi(s) == IF s = <<>> THEN 0 ELSE 10 * Atoi(SubSeq(s, 1, Len(s) - 1)) + DigitVal(s[Len(s)])

DaysIn(month, year) ==
    IF month = 2
    THEN IF year % 4 = 0 /\ (year % 100 # 0 \/ year % 400 = 0) THEN 29 ELSE 28
    ELSE IF month \in {4, 6, 9, 11} THEN 30 ELSE 31

\* time.Parse("2006-01-02T15:04:05.000Z", s) succeeds: the hour may have one
\* digit or two, the fraction may follow a comma
ParsesAsTime(s) ==
    LET h1  == Len(s) = 23 /\ s[13] = ":"
        h   == IF h1 THEN 1 ELSE 2
        hh  == SubSeq(s, 12, 11 + h)
        r   == SubSeq(s, 12 + h, Len(s))
    IN  /\ Len(s) \in {23, 24}
        /\ IsDigits(SubSeq(s, 1, 4)) /\ s[5] = "-"
        /\ IsDigits(SubSeq(s, 6, 7)) /\ s[8] = "-"
        /\ IsDigits(SubSeq(s, 9, 10)) /\ s[11] = "T"
        /\ IsDigits(hh)
        /\ Len(r) = 11
        /\ r[1] = ":" /\ IsDigits(SubSeq(r, 2, 3))
        /\ r[4] = ":" /\ IsDigits(SubSeq(r, 5, 6))
        /\ r[7] \in {".", ","} /\ IsDigits(SubSeq(r, 8, 10))
        /\ r[11] = "Z"
        /\ Atoi(SubSeq(s, 6, 7)) \in 1..12
        /\ Atoi(SubSeq(s, 9, 10)) \in 1..DaysIn(Atoi(SubSeq(s, 6, 7)), Atoi(SubSeq(s, 1, 4)))
        /\ Atoi(hh) < 24
        /\ Atoi(SubSeq(r, 2, 3)) < 60
        /\ Atoi(SubSeq(r, 5, 6)) < 60

\* ParseDate: t.Format("2006-01-02 15:04"), or the text itself when it does
\* not parse
ParseDate(dateStr) ==
    IF ~ParsesAsTime(dateStr) THEN dateStr
    ELSE LET h1 == Len(dateStr) = 23
             hh == IF h1 THEN <<"0", dateStr[12]>> ELSE SubSeq(dateStr, 12, 13)
             mm == IF h1 THEN SubSeq(dateStr, 14, 15) ELSE SubSeq(dateStr, 15, 16)
         IN  SubSeq(dateStr, 1, 10) \o <<" ">> \o hh \o <<":">> \o mm

RECURSIVE SortDesc(_)
\* the versions of a set, greatest first (sort.Slice, Version > Version)
SortDesc(S) ==
    IF S = {} THEN <<>>
    ELSE LET top == CHOOSE v \in S : \A w \in S \ {v} : StrLess(w, v)
         IN  <<top>> \o SortDesc(S \ {top})

\* ExtractVersions: (the version items, greatest version first; nil) or
\* (nil; the error "no matching AMI versions found")
ExtractVersions(amis, k8s) ==
    LET versionSet == VersionSet(amis, k8s)
        order      == SortDesc(DOMAIN versionSet)
    IN  IF DOMAIN versionSet = {} THEN [items |-> <<>>, err |-> TRUE]
        ELSE [items |-> [i \in 1..Len(order) |->
                            VersionItem(order[i], ParseDate(versionSet[order[i]]))],
              err |-> FALSE]

-----------------------------------------------------------------------------
(* main *)

\* the list entry main shows for a version (fmt.Sprintf("v%s", vi.Version))
ItemVersion(version) == <<"v">> \o version

Change(name, old, new) == [nodeclassName |-> name, oldAMI |-> old, newAMI |-> new]

RECURSIVE FirstK8sVersion_FirstTerm(_)
\* the loop ends at the first record with a term, whether it parses or not
FirstK8sVersion_FirstTerm(items) ==
    IF items = <<>> THEN <<>>
    ELSE LET nc == Head(items)
             p  == ParseAMIName(nc.AMISelectorTerms[1].Name)
         IN  IF Len(nc.AMISelectorTerms) > 0
             THEN IF IsError(p) THEN <<>> ELSE p.K8sVersion
             ELSE FirstK8sVersion_FirstTerm(Tail(items))

RECURSIVE FirstK8sVersion(_)
\* the k8s version of the first record whose term parses, or ""
FirstK8sVersion(items) ==
    IF items = <<>> THEN <<>>
    ELSE LET nc == Head(items)
             p  == ParseAMIName(nc.AMISelectorTerms[1].Name)
         IN  IF Len(nc.AMISelectorTerms) > 0 /\ ~IsError(p) THEN p.K8sVersion
             ELSE FirstK8sVersion(Tail(items))

\* what the dry-run loop does with one record: <<"change", c>>, <<"skip", why>>
\* or <<"none">> for a record with no selector term
PlanRecord(nc, map, d) ==
    LET p == ParseAMIName(nc.AMISelectorTerms[1].Name)
    IN  IF Len(nc.AMISelectorTerms) = 0 THEN <<"none">>
        ELSE IF IsError(p) THEN <<"skip", [name |-> nc.Name, why |-> "parse"]>>
        ELSE IF nc.Name \notin DOMAIN map
        THEN <<"skip", [name |-> nc.Name, why |-> "info"]>>
        ELSE <<"change", Change(nc.Name, nc.AMISelectorTerms[1].Name,
                                NewAMIName(p, map[nc.Name], d))>>

RECURSIVE PlanChanges(_, _, _)
\* the changes the dry-run loop collects, in the order of the records
PlanChanges(items, map, d) ==
    IF items = <<>> THEN <<>>
    ELSE LET r == PlanRecord(Head(items), map, d)
         IN  (IF r[1] = "change" THEN <<r[2]>> ELSE <<>>)
                 \o PlanChanges(Tail(items), map, d)

RECURSIVE PlanSkips(_, _, _)
\* the records the dry-run loop reports as skipped, in order
PlanSkips(items, map, d) ==
    IF items = <<>> THEN <<>>
    ELSE LET r == PlanRecord(Head(items), map, d)
         IN  (IF r[1] = "skip" THEN <<r[2]>> ELSE <<>>)
                 \o PlanSkips(Tail(items), map, d)

\* any answer but n confirms
Confirmed_NotNo(answer) == ToLower(answer) # <<"n">>

\* strings.ToLower(response) is "y" or "yes"
Confirmed(answer) == ToLower(answer) = <<"y">> \/ ToLower(answer) = <<"y","e","s">>

\* the store after UpdateNodeClass(name, newAMI) went through: the first
\* selector term of the record of that name names newAMI
UpdateNodeClass(st, name, new) ==
    [k \in 1..Len(st) |->
        IF st[k].Name = name /\ Len(st[k].AMISelectorTerms) > 0
        THEN [st[k] EXCEPT !.AMISelectorTerms[1].Name = new]
        ELSE st[k]]

NodeClaimStatus(name, nodeClass, drifted, reason) ==
    [Name |-> name, NodeClass |-> nodeClass, Drifted |-> drifted, Reason |-> reason]

\* the function waitForNodeClaims hands to WaitForNodeClaimsUndrifted: it
\* shows the statuses and answers whether to go on waiting
OnUpdate(sts) ==
    IF Len(sts) = 0 THEN TRUE
    ELSE LET driftedCount == Cardinality({k \in 1..Len(sts) : sts[k].Drifted})
         IN  IF driftedCount > 0 THEN TRUE ELSE TRUE

-----------------------------------------------------------------------------
(* The world main runs in *)

Owner == <<"s","e","l","f">>

MaxRecords == 2

StoreNames == <<<<"d","e","f","a","u","l","t">>, <<"d","o","m","i","n","o","-","e","k","s","-","c","o","m","p","u","t","e">>, <<"d","o","m","i","n","o","-","e","k","s","-","g","p","u">>>>

StoreTerms ==
    {<<>>} \cup
    {<<SelectorTerm(n, Owner)>> :
        n \in {<<"d","o","m","i","n","o","-","e","k","s","-","1",".","3","3","-","*">>, <<"d","o","m","i","n","o","-","e","k","s","-","g","p","u","-","1",".","3","3","-","*">>, <<"d","o","m","i","n","o","-","e","k","s","-","1",".","3","2","-","*">>,
               <<"f","o","o","-","b","a","r">>}}

RECURSIVE RecordLists(_)
\* the lists that hold some of the names, in the order given, each with a term
\* of StoreTerms or with none
RecordLists(names) ==
    IF names = <<>> THEN {<<>>}
    ELSE LET rest == RecordLists(Tail(names))
         IN  rest \cup {<<EC2NodeClass(Head(names), t)>> \o r : t \in StoreTerms, r \in rest}

\* the record lists kubectl can return: distinct names, in name order
Stores == {st \in RecordLists(StoreNames) : Len(st) <= MaxRecords}

Catalogs ==
    {<<AMIInfo(<<"d","o","m","i","n","o","-","e","k","s","-","1",".","3","3","-","v","2","0","2","5","1","0","0","1">>, <<"a","m","i","-","1">>, <<"2","0","2","5","-","1","0","-","0","1","T","0","0",":","0","0",":","0","0",".","0","0","0","Z">>)>>,
     <<AMIInfo(<<"d","o","m","i","n","o","-","e","k","s","-","1",".","3","3","-","v","2","0","2","5","0","9","1","5">>, <<"a","m","i","-","2">>, <<"2","0","2","5","-","0","9","-","1","5","T","0","8",":","0","0",":","0","0",".","0","0","0","Z">>),
       AMIInfo(<<"d","o","m","i","n","o","-","e","k","s","-","g","p","u","-","1",".","3","3","-","v","2","0","2","5","1","0","0","1">>, <<"a","m","i","-","3">>, <<"2","0","2","5","-","1","0","-","0","1","T","0","0",":","0","0",":","0","0",".","0","0","0","Z">>),
       AMIInfo(<<"d","o","m","i","n","o","-","e","k","s","-","1",".","3","3","-","v","2","0","2","5","1","0","0","1">>, <<"a","m","i","-","1">>, <<"2","0","2","5","-","1","0","-","0","2","T","0","9",":","3","0",":","0","0",".","0","0","0","Z">>),
       AMIInfo(<<"d","o","m","i","n","o","-","e","k","s","-","1",".","3","2","-","v","2","0","2","5","0","9","1","5">>, <<"a","m","i","-","4">>, <<"2","0","2","5","-","0","9","-","1","6">>),
       AMIInfo(<<"o","t","h","e","r","-","i","m","a","g","e">>, <<"a","m","i","-","5">>, <<"2","0","2","5","-","0","1","-","0","1","T","0","0",":","0","0",":","0","0",".","0","0","0","Z">>)>>,
     <<AMIInfo(<<"d","o","m","i","n","o","-","e","k","s","-","1",".","3","1","-","v","2","0","2","5","0","1","0","1">>, <<"a","m","i","-","6">>, <<"2","0","2","5","-","0","1","-","0","1","T","0","0",":","0","0",":","0","0",".","0","0","0","Z">>)>>}

Responses == {<<"y">>, <<"Y","E","S">>, <<"n">>, <<>>}

MaxClaims == 3

StatusKinds ==
    {NodeClaimStatus(<<"c","l","a","i","m">>, <<"d","o","m","i","n","o","-","e","k","s","-","g","p","u">>, FALSE, <<>>),
     NodeClaimStatus(<<"c","l","a","i","m">>, <<"d","o","m","i","n","o","-","e","k","s","-","g","p","u">>, TRUE, <<>>),
     NodeClaimStatus(<<"c","l","a","i","m">>, <<"d","o","m","i","n","o","-","e","k","s","-","g","p","u">>, TRUE, <<"A","M","I","D","r","i","f","t">>),
     NodeClaimStatus(<<"c","l","a","i","m">>, <<"d","e","f","a","u","l","t">>, FALSE, <<>>)}

\* the status lists the runtime can answer with
StatusLists == UNION {[1..n -> StatusKinds] : n \in 0..MaxClaims}

Wait == <<"w","a","i","t">>

NameIdle ==
    /\ stage = "off"
    /\ gen = [form |-> "other", g |-> <<>>, p |-> <<>>, d |-> <<>>, text |-> <<>>]
    /\ ncName = <<>>
    /\ amiName = <<>>
    /\ chosen = <<>>
    /\ pattern = ParseError
    /\ info = [HasNodegroup |-> FALSE, Nodegroup |-> <<>>]
    /\ newAMI = <<>>
    /\ pattern2 = ParseError
    /\ newAMI2 = <<>>

MainInit ==
    /\ NameIdle
    /\ pc = "start"
    /\ store \in Stores
    /\ catalog \in Catalogs
    /\ nodeClasses = <<>>
    /\ k8sVersion = <<>>
    /\ ownerID = <<>>
    /\ nodeclassMap = <<>>
    /\ availableAMIs = <<>>
    /\ versionItems = <<>>
    /\ quitting = FALSE
    /\ selectedItem = <<>>
    /\ versionDate = <<>>
    /\ changes = <<>>
    /\ response = <<>>
    /\ applied = 0
    /\ writes = <<>>
    /\ skipped = <<>>
    /\ prevDate = <<>>
    /\ monitor = "Idle"
    /\ statuses = <<>>
    /\ monitorErr = FALSE

\* main leaves these alone unless it says otherwise
world == <<store, catalog, prevDate>>

monitorVars == <<monitor, statuses, monitorErr>>

\* nodeClasses, err := nodeclasses.GetEC2NodeClasses(), and the empty list
GetNodeClasses ==
    /\ pc = "start"
    /\ nodeClasses' = store
    /\ pc' = IF Len(store) = 0 THEN "exit1" ELSE "detect"
    /\ UNCHANGED <<world, quitting, k8sVersion, ownerID, nodeclassMap, availableAMIs, versionItems,
                   selectedItem, versionDate, changes, response, applied, writes,
                   skipped, monitorVars, nameVars>>

\* kubectl fails
GetNodeClassesFails ==
    /\ pc = "start"
    /\ pc' = "exit1"
    /\ UNCHANGED <<world, quitting, nodeClasses, k8sVersion, ownerID, nodeclassMap, availableAMIs,
                   versionItems, selectedItem, versionDate, changes, response, applied,
                   writes, skipped, monitorVars, nameVars>>

\* the loop that takes the k8s version of the first record that parses
DetectVersion ==
    /\ pc = "detect"
    /\ k8sVersion' = FirstK8sVersion(nodeClasses)
    /\ pc' = IF k8sVersion' = <<>> THEN "exit1" ELSE "owner"
    /\ UNCHANGED <<world, quitting, nodeClasses, ownerID, nodeclassMap, availableAMIs, versionItems,
                   selectedItem, versionDate, changes, response, applied, writes,
                   skipped, monitorVars, nameVars>>

\* ownerID := nodeClasses.Items[0].Spec.AMISelectorTerms[0].Owner, which
\* panics (index out of range) when the first record has no term; then
\* nodeclassMap := nodeclasses.BuildNodeClassMap(nodeClasses)
ReadOwner ==
    /\ pc = "owner"
    /\ IF Len(nodeClasses[1].AMISelectorTerms) = 0
       THEN /\ pc' = "panic"
            /\ UNCHANGED <<ownerID, nodeclassMap>>
       ELSE /\ ownerID' = nodeClasses[1].AMISelectorTerms[1].Owner
            /\ nodeclassMap' = BuildNodeClassMap(nodeClasses)
            /\ pc' = "query"
    /\ UNCHANGED <<world, quitting, nodeClasses, k8sVersion, availableAMIs, versionItems,
                   selectedItem, versionDate, changes, response, applied, writes,
                   skipped, monitorVars, nameVars>>

\* availableAMIs, err := amis.GetAvailableAMIs(ownerID);
\* versionItems, err := amis.ExtractVersions(availableAMIs, k8sVersion)
QueryAMIs ==
    /\ pc = "query"
    /\ availableAMIs' = catalog
    /\ LET r == ExtractVersions(catalog, k8sVersion)
       IN  /\ versionItems' = r.items
           /\ pc' = IF r.err THEN "exit1" ELSE "select"
    /\ UNCHANGED <<world, quitting, nodeClasses, k8sVersion, ownerID, nodeclassMap, selectedItem,
                   versionDate, changes, response, applied, writes, skipped,
                   monitorVars, nameVars>>

\* aws fails
QueryAMIsFails ==
    /\ pc = "query"
    /\ pc' = "exit1"
    /\ UNCHANGED <<world, quitting, nodeClasses, k8sVersion, ownerID, nodeclassMap, availableAMIs,
                   versionItems, selectedItem, versionDate, changes, response, applied,
                   writes, skipped, monitorVars, nameVars>>

\* the list shown: the wait item, then one item per version; FilterValue of each
ListItems == <<Wait>> \o [k \in 1..Len(versionItems) |-> ItemVersion(versionItems[k].Version)]

\* program.Run() ends on ctrl+c: "Cancelled"
SelectCancel ==
    /\ pc = "select"
    /\ quitting' = TRUE
    /\ pc' = "exit0"
    /\ UNCHANGED <<world, nodeClasses, k8sVersion, ownerID, nodeclassMap, availableAMIs,
                   versionItems, selectedItem, versionDate, changes, response, applied,
                   writes, skipped, monitorVars, nameVars>>

\* enter with no item under the cursor: choice stays "", "No version selected"
SelectNothing ==
    /\ pc = "select"
    /\ selectedItem' = <<>>
    /\ pc' = "exit0"
    /\ UNCHANGED <<world, quitting, nodeClasses, k8sVersion, ownerID, nodeclassMap, availableAMIs,
                   versionItems, versionDate, changes, response, applied, writes,
                   skipped, monitorVars, nameVars>>

\* enter on the wait item: waitForNodeClaims() and return
SelectWait ==
    /\ pc = "select"
    /\ selectedItem' = ListItems[1]
    /\ pc' = "wait"
    /\ monitor' = "Polling"
    /\ UNCHANGED <<world, quitting, nodeClasses, k8sVersion, ownerID, nodeclassMap, availableAMIs,
                   versionItems, versionDate, changes, response, applied, writes,
                   skipped, statuses, monitorErr, nameVars>>

\* enter on a version: versionDate, then the dry-run loop over the records
SelectVersion ==
    /\ pc = "select"
    /\ \E k \in 2..Len(ListItems) :
        /\ selectedItem' = ListItems[k]
        /\ versionDate' = TrimPrefix(ListItems[k], <<"v">>)
    /\ changes' = PlanChanges(nodeClasses, nodeclassMap, versionDate')
    /\ skipped' = PlanSkips(nodeClasses, nodeclassMap, versionDate')
    /\ pc' = "confirm"
    /\ UNCHANGED <<world, quitting, nodeClasses, k8sVersion, ownerID, nodeclassMap, availableAMIs,
                   versionItems, response, applied, writes, monitorVars, nameVars>>

\* fmt.Scanln(&response) and the test of the answer
Confirm ==
    /\ pc = "confirm"
    /\ response' \in Responses
    /\ pc' = IF Confirmed(response') THEN "apply" ELSE "exit0"
    /\ UNCHANGED <<world, quitting, nodeClasses, k8sVersion, ownerID, nodeclassMap, availableAMIs,
                   versionItems, selectedItem, versionDate, changes, applied, writes,
                   skipped, monitorVars, nameVars>>

\* one iteration of the apply loop, UpdateNodeClass going through
ApplyChange ==
    /\ pc = "apply"
    /\ applied < Len(changes)
    /\ LET ch == changes[applied + 1]
       IN  /\ store' = UpdateNodeClass(store, ch.nodeclassName, ch.newAMI)
           /\ writes' = Append(writes, [name |-> ch.nodeclassName, ami |-> ch.newAMI,
                                        ok |-> TRUE])
    /\ applied' = applied + 1
    /\ UNCHANGED <<pc, catalog, prevDate, quitting, nodeClasses, k8sVersion, ownerID, nodeclassMap,
                   availableAMIs, versionItems, selectedItem, versionDate, changes,
                   response, skipped, monitorVars, nameVars>>

\* what the loop does after UpdateNodeClass returned an error: report, continue
AfterFailedUpdate_Abort == "exit1"

AfterFailedUpdate == "apply"

\* one iteration of the apply loop, UpdateNodeClass failing: nothing is written
ApplyChangeFails ==
    /\ pc = "apply"
    /\ applied < Len(changes)
    /\ LET ch == changes[applied + 1]
       IN  writes' = Append(writes, [name |-> ch.nodeclassName, ami |-> ch.newAMI,
                                     ok |-> FALSE])
    /\ applied' = applied + 1
    /\ pc' = AfterFailedUpdate
    /\ UNCHANGED <<world, quitting, nodeClasses, k8sVersion, ownerID, nodeclassMap, availableAMIs,
                   versionItems, selectedItem, versionDate, changes, response, skipped,
                   monitorVars, nameVars>>

\* the apply loop is over: waitForNodeClaims()
ApplyDone ==
    /\ pc = "apply"
    /\ applied = Len(changes)
    /\ pc' = "wait"
    /\ monitor' = "Polling"
    /\ UNCHANGED <<world, quitting, nodeClasses, k8sVersion, ownerID, nodeclassMap, availableAMIs,
                   versionItems, selectedItem, versionDate, changes, response, applied,
                   writes, skipped, statuses, monitorErr, nameVars>>

\* how WaitForNodeClaimsUndrifted can return: with the error of a fetch, or
\* with nil after the function answered false to some status list
MonitorOutcomes ==
    {"error"} \cup {"stopped" : sts \in {x \in StatusLists : ~OnUpdate(x)}}

\* waitForNodeClaims() returns, and main with it (the ticks before that are
\* Tick's, under SpecMonitor)
MonitorReturns ==
    /\ pc = "wait"
    /\ monitor = "Polling"
    /\ \E out \in MonitorOutcomes : monitorErr' = (out = "error")
    /\ monitor' = "Stopped"
    /\ pc' = "done"
    /\ UNCHANGED <<world, quitting, nodeClasses, k8sVersion, ownerID, nodeclassMap,
                   availableAMIs, versionItems, selectedItem, versionDate, changes,
                   response, applied, writes, skipped, statuses, nameVars>>

\* WaitForNodeClaimsUndrifted, one tick: the statuses are fetched and handed to
\* the function; the loop stops when it answers false
Tick ==
    /\ pc = "wait"
    /\ monitor = "Polling"
    /\ statuses' \in StatusLists
    /\ IF OnUpdate(statuses')
       THEN UNCHANGED <<pc, monitor>>
       ELSE monitor' = "Stopped" /\ pc' = "done"
    /\ UNCHANGED <<world, quitting, nodeClasses, k8sVersion, ownerID, nodeclassMap, availableAMIs,
                   versionItems, selectedItem, versionDate, changes, response, applied,
                   writes, skipped, monitorErr, nameVars>>

\* WaitForNodeClaimsUndrifted, one tick: the fetch fails, the error is returned
TickFails ==
    /\ pc = "wait"
    /\ monitor = "Polling"
    /\ statuses' = <<>>
    /\ monitorErr' = TRUE
    /\ monitor' = "Stopped"
    /\ pc' = "done"
    /\ UNCHANGED <<world, quitting, nodeClasses, k8sVersion, ownerID, nodeclassMap, availableAMIs,
                   versionItems, selectedItem, versionDate, changes, response, applied,
                   writes, skipped, nameVars>>

\* ctrl+c while waiting
Interrupt ==
    /\ pc = "wait"
    /\ monitor = "Polling"
    /\ monitor' = "Stopped"
    /\ pc' = "interrupted"
    /\ UNCHANGED <<world, quitting, nodeClasses, k8sVersion, ownerID, nodeclassMap, availableAMIs,
                   versionItems, selectedItem, versionDate, changes, response, applied,
                   writes, skipped, statuses, monitorErr, nameVars>>

Ended == pc \in {"exit0", "exit1", "panic", "done", "interrupted"}

\* this run wrote its new name for every item of a non-empty plan
AppliedAll ==
    /\ changes # <<>>
    /\ Len(writes) = Len(changes)
    /\ \A k \in 1..Len(writes) : writes[k].ok

\* the operator runs the tool again
Rerun ==
    /\ Ended
    /\ prevDate' = IF AppliedAll THEN versionDate ELSE <<>>
    /\ pc' = "start"
    /\ nodeClasses' = <<>>
    /\ k8sVersion' = <<>>
    /\ ownerID' = <<>>
    /\ nodeclassMap' = <<>>
    /\ availableAMIs' = <<>>
    /\ versionItems' = <<>>
    /\ quitting' = FALSE
    /\ selectedItem' = <<>>
    /\ versionDate' = <<>>
    /\ changes' = <<>>
    /\ response' = <<>>
    /\ applied' = 0
    /\ writes' = <<>>
    /\ skipped' = <<>>
    /\ monitor' = "Idle"
    /\ statuses' = <<>>
    /\ monitorErr' = FALSE
    /\ UNCHANGED <<store, catalog, nameVars>>

Next ==
    \/ GetNodeClasses \/ GetNodeClassesFails
    \/ DetectVersion
    \/ ReadOwner
    \/ QueryAMIs \/ QueryAMIsFails
    \/ SelectCancel \/ SelectNothing \/ SelectWait \/ SelectVersion
    \/ Confirm
    \/ ApplyChange \/ ApplyChangeFails \/ ApplyDone
    \/ MonitorReturns \/ Interrupt
    \/ Rerun

Spec == MainInit /\ [][Next]_vars

-----------------------------------------------------------------------------
(* SpecMonitor: the poll loop of WaitForNodeClaimsUndrifted, entered from   *)
(* waitForNodeClaims().                                                    *)

MonitorInit ==
    /\ NameIdle
    /\ pc = "wait"
    /\ store \in {st \in Stores : Len(st) = 1}
    /\ catalog = <<>>
    /\ nodeClasses = store
    /\ k8sVersion = <<>>
    /\ ownerID = <<>>
    /\ nodeclassMap = <<>>
    /\ availableAMIs = <<>>
    /\ versionItems = <<>>
    /\ quitting = FALSE
    /\ selectedItem = Wait
    /\ versionDate = <<>>
    /\ changes = <<>>
    /\ response = <<>>
    /\ applied = 0
    /\ writes = <<>>
    /\ skipped = <<>>
    /\ prevDate = <<>>
    /\ monitor = "Polling"
    /\ statuses = <<>>
    /\ monitorErr = FALSE

MonitorNext == Tick \/ TickFails \/ Interrupt

SpecMonitor == MonitorInit /\ [][MonitorNext]_vars

-----------------------------------------------------------------------------
(* SpecName: one image reference through ParseAMIName, BuildNodeClassMap,   *)
(* the new-name construction, and both once more on the new name.          *)

Groups == {<<"g","p","u">>, <<"c","o","m","p","u","t","e">>, <<"1",".","3","2">>, <<"v","2","0","2","5","1","0","0","1">>}

Platforms == {<<"1",".","3","3">>, <<"1",".","9">>}

Dates == {<<"2","0","2","5","1","0","0","1">>, <<"2","0","2","5","0","9","1","5">>}

OtherNames ==
    {<<"f","o","o","-","b","a","r">>, <<"d","o","m","i","n","o","-","e","k","s","-">>, <<"d","o","m","i","n","o","-","e","k","s","-","2",".","3","3","-","*">>, <<"d","o","m","i","n","o","-","e","k","s","-","g","p","u","-","2",".","3","3","-","v","2","0","2","5","1","0","0","1">>,
     <<"d","o","m","i","n","o","-","e","k","s","-","1",".","3","3">>, <<"d","o","m","i","n","o","-","e","k","s","-","g","p","u","-","1",".","3","3">>, <<"d","o","m","i","n","o","-","e","k","s","-","-","1",".","3","3","-","*">>,
     <<"d","o","m","i","n","o","-","e","k","s","-","g","p","u","-","l","a","r","g","e","-","1",".","3","3","-","*">>, <<"d","o","m","i","n","o","-","e","k","s","-","1",".","3","3","-","v","2","0","2","5","1","0","0">>,
     <<"d","o","m","i","n","o","-","e","k","s","-","1",".","3","3","-","v","2","0","2","5","1","0","0","1","1">>, <<"d","o","m","i","n","o","-","e","k","s","-","g","p","u","-","1",".","3","3","-","v","2","0","2","5","1","0","0","x">>,
     <<"D","o","m","i","n","o","-","e","k","s","-","1",".","3","3","-","*">>, <<"x","d","o","m","i","n","o","-","e","k","s","-","1",".","3","3","-","*">>, <<"d","o","m","i","n","o","-","e","k","s","-","1",".","-","*">>,
     <<"d","o","m","i","n","o","-","e","k","s","-","1",".","3","3","-","*","\n">>, <<"d","o","m","i","n","o","-","e","k","s","-","1","x","3","3","-","*">>, <<>>}

NodeClassNames ==
    {<<"d","o","m","i","n","o","-","e","k","s","-","g","p","u">>, <<"d","o","m","i","n","o","-","e","k","s","-","c","o","m","p","u","t","e">>, <<"d","o","m","i","n","o","-","e","k","s","-","g","p","u","-","l","a","r","g","e">>, <<"d","e","f","a","u","l","t">>}

Gens ==
    [form : {"resolved-group", "wildcard-group"}, g : Groups, p : Platforms, d : Dates,
     text : {<<>>}]
    \cup [form : {"resolved", "wildcard"}, g : {<<>>}, p : Platforms, d : Dates,
          text : {<<>>}]
    \cup [form : {"other"}, g : {<<>>}, p : {<<>>}, d : {<<>>}, text : OtherNames]

\* the image reference a generator stands for
TextOf(x) ==
    CASE x.form = "resolved-group" ->
             <<"d","o","m","i","n","o","-","e","k","s","-">> \o x.g \o <<"-">> \o x.p \o <<"-","v">> \o x.d
      [] x.form = "resolved" -> <<"d","o","m","i","n","o","-","e","k","s","-">> \o x.p \o <<"-","v">> \o x.d
      [] x.form = "wildcard-group" -> <<"d","o","m","i","n","o","-","e","k","s","-">> \o x.g \o <<"-">> \o x.p \o <<"-","*">>
      [] x.form = "wildcard" -> <<"d","o","m","i","n","o","-","e","k","s","-">> \o x.p \o <<"-","*">>
      [] x.form = "other" -> x.text

MainIdle ==
    /\ pc = "off"
    /\ store = <<>>
    /\ catalog = <<>>
    /\ nodeClasses = <<>>
    /\ k8sVersion = <<>>
    /\ ownerID = <<>>
    /\ nodeclassMap = <<>>
    /\ availableAMIs = <<>>
    /\ versionItems = <<>>
    /\ quitting = FALSE
    /\ selectedItem = <<>>
    /\ versionDate = <<>>
    /\ changes = <<>>
    /\ response = <<>>
    /\ applied = 0
    /\ writes = <<>>
    /\ skipped = <<>>
    /\ prevDate = <<>>
    /\ monitor = "Idle"
    /\ statuses = <<>>
    /\ monitorErr = FALSE

NameInit ==
    /\ MainIdle
    /\ stage = "input"
    /\ gen \in Gens
    /\ amiName = TextOf(gen)
    /\ ncName \in NodeClassNames
    /\ chosen \in {TrimPrefix(ItemVersion(d), <<"v">>) : d \in Dates}
    /\ pattern = ParseError
    /\ info = [HasNodegroup |-> FALSE, Nodegroup |-> <<>>]
    /\ newAMI = <<>>
    /\ pattern2 = ParseError
    /\ newAMI2 = <<>>

\* pattern, err := nodeclasses.ParseAMIName(nc.Spec.AMISelectorTerms[0].Name)
Parse ==
    /\ stage = "input"
    /\ pattern' = ParseAMIName(amiName)
    /\ stage' = "parsed"
    /\ UNCHANGED <<mainVars, gen, ncName, amiName, chosen, info, newAMI, pattern2, newAMI2>>

\* info := nodeclassMap[name]; newAMI = fmt.Sprintf(...)
Name ==
    /\ stage = "parsed"
    /\ ~IsError(pattern)
    /\ info' = BuildNodeClassMap(
                   <<EC2NodeClass(ncName, <<SelectorTerm(amiName, Owner)>>)>>)[ncName]
    /\ newAMI' = NewAMIName(pattern, info', chosen)
    /\ stage' = "named"
    /\ UNCHANGED <<mainVars, gen, ncName, amiName, chosen, pattern, pattern2, newAMI2>>

\* the new name parsed in its turn
Reparse ==
    /\ stage = "named"
    /\ pattern2' = ParseAMIName(newAMI)
    /\ stage' = "reparsed"
    /\ UNCHANGED <<mainVars, gen, ncName, amiName, chosen, pattern, info, newAMI, newAMI2>>

\* and the name built again from what was parsed
Rename ==
    /\ stage = "reparsed"
    /\ ~IsError(pattern2)
    /\ newAMI2' = NewAMIName(pattern2, info, chosen)
    /\ stage' = "renamed"
    /\ UNCHANGED <<mainVars, gen, ncName, amiName, chosen, pattern, info, newAMI, pattern2>>

NameNext == Parse \/ Name \/ Reparse \/ Rename

SpecName == NameInit /\ [][NameNext]_vars

-----------------------------------------------------------------------------
(* SpecCatalog: main from the catalog query on, over the image lists aws    *)
(* can answer with, for the one record the run found.                      *)

MaxCatalog == 3

\* images of the owner: resolved names with and without a nodegroup, the same
\* version under several creation dates, a date that is no timestamp, another
\* k8s version, a nodegroup with a hyphen in it, an image of another family
CatalogPool ==
    {AMIInfo(<<"d","o","m","i","n","o","-","e","k","s","-","1",".","3","3","-","v","2","0","2","5","1","0","0","1">>, <<"a","m","i","-","1">>, <<"2","0","2","5","-","1","0","-","0","1","T","0","0",":","0","0",":","0","0",".","0","0","0","Z">>),
     AMIInfo(<<"d","o","m","i","n","o","-","e","k","s","-","g","p","u","-","1",".","3","3","-","v","2","0","2","5","1","0","0","1">>, <<"a","m","i","-","2">>, <<"2","0","2","5","-","1","0","-","0","2","T","0","9",":","3","0",":","0","0",".","0","0","0","Z">>),
     AMIInfo(<<"d","o","m","i","n","o","-","e","k","s","-","c","o","m","p","u","t","e","-","1",".","3","3","-","v","2","0","2","5","1","0","0","1">>, <<"a","m","i","-","3">>, <<"2","0","2","5","-","1","0","-","0","1","T","0","0",":","0","0",":","0","0",".","0","0","0","Z">>),
     AMIInfo(<<"d","o","m","i","n","o","-","e","k","s","-","1",".","3","3","-","v","2","0","2","5","0","9","1","5">>, <<"a","m","i","-","4">>, <<"2","0","2","5","-","0","9","-","1","6">>),
     AMIInfo(<<"d","o","m","i","n","o","-","e","k","s","-","1",".","3","2","-","v","2","0","2","5","1","0","0","1">>, <<"a","m","i","-","5">>, <<"2","0","2","5","-","1","0","-","0","3","T","0","0",":","0","0",":","0","0",".","0","0","0","Z">>),
     AMIInfo(<<"d","o","m","i","n","o","-","e","k","s","-","g","p","u","-","l","a","r","g","e","-","1",".","3","3","-","v","2","0","2","5","1","1","0","1">>, <<"a","m","i","-","6">>, <<"2","0","2","5","-","1","1","-","0","1","T","0","0",":","0","0",":","0","0",".","0","0","0","Z">>),
     AMIInfo(<<"o","t","h","e","r","-","i","m","a","g","e">>, <<"a","m","i","-","7">>, <<"2","0","2","5","-","0","1","-","0","1","T","0","0",":","0","0",":","0","0",".","0","0","0","Z">>)}

RECURSIVE Listings(_, _)
\* the image lists of at most n images of the pool, in every order
Listings(pool, n) ==
    IF n = 0 THEN {<<>>}
    ELSE {<<>>} \cup
         UNION {{<<e>> \o r : r \in Listings(pool \ {e}, n - 1)} : e \in pool}

\* the record lists of the runs followed: the one record domino-eks-gpu, with
\* a reference that parses
CatalogStores ==
    {st \in Stores : /\ Len(st) = 1
                     /\ st[1].Name = <<"d","o","m","i","n","o","-","e","k","s","-","g","p","u">>
                     /\ FirstK8sVersion(st) # <<>>}

\* main before line 153: the records are read, the k8s version and the owner
\* are found, the map is built
CatalogInit ==
    /\ NameIdle
    /\ pc = "query"
    /\ store \in CatalogStores
    /\ catalog \in Listings(CatalogPool, MaxCatalog)
    /\ nodeClasses = store
    /\ k8sVersion = FirstK8sVersion(nodeClasses)
    /\ ownerID = nodeClasses[1].AMISelectorTerms[1].Owner
    /\ nodeclassMap = BuildNodeClassMap(nodeClasses)
    /\ availableAMIs = <<>>
    /\ versionItems = <<>>
    /\ quitting = FALSE
    /\ selectedItem = <<>>
    /\ versionDate = <<>>
    /\ changes = <<>>
    /\ response = <<>>
    /\ applied = 0
    /\ writes = <<>>
    /\ skipped = <<>>
    /\ prevDate = <<>>
    /\ monitor = "Idle"
    /\ statuses = <<>>
    /\ monitorErr = FALSE

CatalogNext ==
    \/ QueryAMIs \/ QueryAMIsFails
    \/ SelectCancel \/ SelectNothing \/ SelectWait \/ SelectVersion
    \/ Confirm
    \/ ApplyChange \/ ApplyChangeFails \/ ApplyDone

SpecCatalog == CatalogInit /\ [][CatalogNext]_vars

-----------------------------------------------------------------------------
(* Properties *)

\* the dry-run loop has just built the plan of this run (changes is not
\* assigned again)
Planned == pc = "confirm"

HasGroup(name) == ~IsError(ParseAMIName(name)) /\ ParseAMIName(name).HasNodegroup

\* C1: once a run has written the new name for date-version d to every item
\* of its plan, the plan of the next run, built for the same d, has
\* newAMI = oldAMI in every item.
C1_ReentrantPlan ==
    (Planned /\ prevDate = versionDate) =>
        \A k \in 1..Len(changes) : changes[k].newAMI = changes[k].oldAMI

\* C1 happens: a second plan for the date-version just applied, over one
\* record with a nodegroup in its reference and one without.
C1_Witness ==
    /\ Planned
    /\ prevDate = versionDate
    /\ Len(changes) = 2
    /\ HasGroup(changes[1].oldAMI) # HasGroup(changes[2].oldAMI)
    /\ \A k \in 1..2 : changes[k].newAMI = changes[k].oldAMI

GpuRecordPlanned(k) ==
    /\ changes[k].nodeclassName = <<"d","o","m","i","n","o","-","e","k","s","-","g","p","u">>
    /\ changes[k].oldAMI = <<"d","o","m","i","n","o","-","e","k","s","-","1",".","3","3","-","*">>

\* C2 as stated: for the record domino-eks-gpu with the reference
\* domino-eks-1.33-*, the registry holds the nodegroup gpu and the planned new
\* reference is domino-eks-gpu-1.33-v<d>.
C2_Original ==
    Planned =>
        \A k \in 1..Len(changes) :
            GpuRecordPlanned(k) =>
                /\ nodeclassMap[changes[k].nodeclassName].Nodegroup = <<"g","p","u">>
                /\ changes[k].newAMI = <<"d","o","m","i","n","o","-","e","k","s","-","g","p","u","-","1",".","3","3","-","v">> \o versionDate

\* C2 as amended: for that record the registry holds the nodegroup gpu with
\* HasNodegroup false, and the planned new reference is domino-eks-1.33-v<d>,
\* with no nodegroup segment.
C2_InferredGroupUnused ==
    Planned =>
        \A k \in 1..Len(changes) :
            GpuRecordPlanned(k) =>
                /\ nodeclassMap[changes[k].nodeclassName] =
                       [HasNodegroup |-> FALSE, Nodegroup |-> <<"g","p","u">>]
                /\ changes[k].newAMI = <<"d","o","m","i","n","o","-","e","k","s","-","1",".","3","3","-","v">> \o versionDate

\* C2 happens: the record domino-eks-gpu with domino-eks-1.33-* is in a plan.
C2_Witness ==
    /\ Planned
    /\ \E k \in 1..Len(changes) : GpuRecordPlanned(k)

ScenarioA ==
    /\ nodeClasses = <<EC2NodeClass(<<"d","o","m","i","n","o","-","e","k","s","-","c","o","m","p","u","t","e">>,
                                    <<SelectorTerm(<<"d","o","m","i","n","o","-","e","k","s","-","1",".","3","3","-","*">>, Owner)>>)>>
    /\ versionDate = <<"2","0","2","5","1","0","0","1">>

\* C3: the record domino-eks-compute with domino-eks-1.33-* and date-version
\* 20251001 gives the plan of the one item (domino-eks-compute,
\* domino-eks-1.33-*, domino-eks-1.33-v20251001); and every item whose old
\* reference has no nodegroup segment gets domino-eks-<platform>-v<d>.
C3_NoGroupStaysWithoutGroup ==
    Planned =>
        /\ ScenarioA =>
               changes = <<Change(<<"d","o","m","i","n","o","-","e","k","s","-","c","o","m","p","u","t","e">>, <<"d","o","m","i","n","o","-","e","k","s","-","1",".","3","3","-","*">>,
                                  <<"d","o","m","i","n","o","-","e","k","s","-","1",".","3","3","-","v","2","0","2","5","1","0","0","1">>)>>
        /\ \A k \in 1..Len(changes) :
               ~HasGroup(changes[k].oldAMI) =>
                   changes[k].newAMI =
                       <<"d","o","m","i","n","o","-","e","k","s","-">> \o ParseAMIName(changes[k].oldAMI).K8sVersion
                           \o <<"-","v">> \o versionDate

\* C3 happens: scenario A, against the catalog of the one image.
C3_Witness ==
    /\ Planned
    /\ ScenarioA
    /\ Len(catalog) = 1
    /\ Len(changes) = 1

AllUndrifted(sts) == \A k \in 1..Len(sts) : ~sts[k].Drifted

\* C4: once a fetched status list has every status undrifted, the function
\* handed to the monitor has answered false and the loop is Stopped.
C4_StopsWhenUndrifted ==
    (pc \in {"wait", "done"} /\ statuses # <<>> /\ AllUndrifted(statuses)) =>
        monitor = "Stopped"

IsVersionItem(choice) == choice # Wait /\ HasPrefix(choice, <<"v">>)

\* C5: UpdateNodeClass is called, and the store changes, only in the apply
\* loop of a run where a version was selected and the answer to the
\* confirmation was y or yes, whatever its case.
C5_NoWriteBeforeConfirmation ==
    [][((writes' # writes /\ writes' # <<>>) \/ store' # store) =>
          /\ pc = "apply"
          /\ ~quitting
          /\ IsVersionItem(selectedItem)
          /\ ToLower(response) \in {<<"y">>, <<"y","e","s">>}]_vars

\* C5 happens: a write after the answer YES.
C5_Witness ==
    /\ writes # <<>>
    /\ writes[1].ok
    /\ store # nodeClasses
    /\ response = <<"Y","E","S">>

\* C6: the writes of a run are those of its plan, item by item in plan order,
\* each once; and when the apply loop is left every item has had its write,
\* whichever of them failed.
C6_ApplyContinuesAfterFailure ==
    /\ Len(writes) <= Len(changes)
    /\ \A k \in 1..Len(writes) :
           /\ writes[k].name = changes[k].nodeclassName
           /\ writes[k].ami = changes[k].newAMI
    /\ pc = "apply" => Len(writes) = applied
    /\ (pc # "apply" /\ writes # <<>>) => Len(writes) = Len(changes)

\* C6 happens: the first write failed and the second was made.
C6_Witness ==
    /\ pc = "wait"
    /\ Len(writes) = 2
    /\ ~writes[1].ok
    /\ writes[2].ok

Parsed == stage \in {"parsed", "named", "reparsed", "renamed"}

\* C7: a name domino-eks-<g>-<p>-v<d> parses to (true, g, p, d) and a name
\* domino-eks-<p>-v<d> to (false, "", p, d); neither comes back without its
\* date-version.
C7_ResolvedNamesParse ==
    Parsed =>
        /\ gen.form = "resolved-group" => pattern = AMIPattern(TRUE, gen.g, gen.p, gen.d)
        /\ gen.form = "resolved" => pattern = AMIPattern(FALSE, <<>>, gen.p, gen.d)
        /\ gen.form \in {"resolved-group", "resolved"} =>
               ~IsError(pattern) /\ pattern.Version # <<>>

\* C7 happens: a resolved name whose nodegroup looks like a platform version.
C7_Witness ==
    /\ stage = "parsed"
    /\ gen.form = "resolved-group"
    /\ gen.g = <<"1",".","3","2">>
    /\ pattern.Version = gen.d

\* C8: a name domino-eks-<g>-<p>-* parses to (true, g, p, "") and a name
\* domino-eks-<p>-* to (false, "", p, "").
C8_WildcardNamesParse ==
    Parsed =>
        /\ gen.form = "wildcard-group" => pattern = AMIPattern(TRUE, gen.g, gen.p, <<>>)
        /\ gen.form = "wildcard" => pattern = AMIPattern(FALSE, <<>>, gen.p, <<>>)

\* C8 happens: a wildcard name with a nodegroup has been parsed.
C8_Witness ==
    /\ stage = "parsed"
    /\ gen.form = "wildcard-group"
    /\ gen.g = <<"g","p","u">>
    /\ pattern.HasNodegroup
    /\ pattern.Version = <<>>

\* a segment 1.<digits>
IsPlatformSegment(seg) ==
    /\ Len(seg) >= 3
    /\ seg[1] = "1"
    /\ seg[2] = "."
    /\ \A k \in 3..Len(seg) : seg[k] \in Digits

IsDateSegment(seg) ==
    /\ Len(seg) = 9
    /\ seg[1] = "v"
    /\ \A k \in 2..9 : seg[k] \in Digits

\* the four forms of the grammar, on the segments between the hyphens
InGrammar(name) ==
    LET segs == Split(name, "-")
        head == Len(segs) >= 2 /\ segs[1] = <<"d","o","m","i","n","o">> /\ segs[2] = <<"e","k","s">>
    IN  \/ head /\ Len(segs) = 5 /\ segs[3] # <<>> /\ IsPlatformSegment(segs[4])
             /\ IsDateSegment(segs[5])
        \/ head /\ Len(segs) = 4 /\ IsPlatformSegment(segs[3]) /\ IsDateSegment(segs[4])
        \/ head /\ Len(segs) >= 5 /\ segs[3] # <<>> /\ IsPlatformSegment(segs[4])
        \/ head /\ Len(segs) >= 4 /\ IsPlatformSegment(segs[3])

\* C9: a string in none of the four forms of the grammar, foo-bar,
\* domino-eks- and the names with a platform segment that is not 1.<digits>
\* among them, parses to the error and to no pattern.
C9_OtherNamesRejected ==
    Parsed =>
        /\ ~InGrammar(amiName) => pattern = ParseError
        /\ amiName \in {<<"f","o","o","-","b","a","r">>, <<"d","o","m","i","n","o","-","e","k","s","-">>, <<"d","o","m","i","n","o","-","e","k","s","-","2",".","3","3","-","*">>,
                        <<"d","o","m","i","n","o","-","e","k","s","-","g","p","u","-","2",".","3","3","-","v","2","0","2","5","1","0","0","1">>, <<"d","o","m","i","n","o","-","e","k","s","-","1","x","3","3","-","*">>} =>
               pattern = ParseError

\* C9 happens: a name with the platform segment 2.33 has been rejected.
C9_Witness ==
    /\ stage = "parsed"
    /\ amiName = <<"d","o","m","i","n","o","-","e","k","s","-","2",".","3","3","-","*">>
    /\ ~InGrammar(amiName)
    /\ IsError(pattern)

\* C10: the new name built for a parsed reference parses, and the name built
\* from what it parses to, with the same registry info and date-version, is
\* that same name.
C10_NewNameIdempotent ==
    /\ stage \in {"reparsed", "renamed"} => ~IsError(pattern2)
    /\ stage = "renamed" => newAMI2 = newAMI

\* C10 happens: a wildcard reference without a nodegroup, on a record whose
\* name gives the registry a nodegroup, named twice.
C10_Witness ==
    /\ stage = "renamed"
    /\ gen.form = "wildcard"
    /\ info.Nodegroup = <<"g","p","u","-","l","a","r","g","e">>
    /\ newAMI2 = newAMI


-----------------------------------------------------------------------------
(* The reconciler *)

\* ExtractVersions has just returned its items for availableAMIs
Extracted == pc = "select"

HasSuffix(s, suffix) ==
    Len(s) >= Len(suffix) /\ SubSeq(s, Len(s) - Len(suffix) + 1, Len(s)) = suffix

DateVersionOf(name) == SubSeq(name, Len(name) - 7, Len(name))

\* name is domino-eks-<k8s>-v<8 digits> or domino-eks-<anything>-<k8s>-v<8
\* digits>, read off the text
Carries(name, k8s) ==
    LET head == <<"d","o","m","i","n","o","-","e","k","s","-">>
        tail == <<"-">> \o k8s \o <<"-","v">> \o DateVersionOf(name)
    IN  /\ Len(name) >= 8
        /\ IsDigits(DateVersionOf(name))
        /\ HasPrefix(name, head)
        /\ HasSuffix(name, tail)
        /\ Len(name) >= Len(head) + Len(tail) - 1
        /\ \A i \in 1..Len(name) : name[i] # "\n"

\* the entries of availableAMIs that carry date-version d for k8sVersion
Contributors(d) ==
    {i \in 1..Len(availableAMIs) :
        /\ Carries(availableAMIs[i].Name, k8sVersion)
        /\ DateVersionOf(availableAMIs[i].Name) = d}

DateVersions ==
    {DateVersionOf(availableAMIs[i].Name) :
        i \in {j \in 1..Len(availableAMIs) : Carries(availableAMIs[j].Name, k8sVersion)}}

\* the greatest creation date, as a string, among the entries carrying d
Latest(d) ==
    LET dates == {availableAMIs[i].CreationDate : i \in Contributors(d)}
    IN  CHOOSE t \in dates : \A u \in dates : ~StrLess(t, u)

OnePerDateVersion ==
    /\ Len(versionItems) = Cardinality(DateVersions)
    /\ {versionItems[i].Version : i \in 1..Len(versionItems)} = DateVersions

StrictlyDescending ==
    \A i, j \in 1..Len(versionItems) :
        i < j => StrLess(versionItems[j].Version, versionItems[i].Version)

Swapped(s, k) ==
    [i \in 1..Len(s) |-> IF i = k THEN s[k + 1] ELSE IF i = k + 1 THEN s[k] ELSE s[i]]

\* exchanging two neighbours of the image list leaves the items as they are
\* (every order of a list is reached by such exchanges)
OrderIndependent ==
    \A k \in 1..(Len(availableAMIs) - 1) :
        ExtractVersions(Swapped(availableAMIs, k), k8sVersion).items = versionItems

\* C11 as stated: the items ExtractVersions returns are one per date-version
\* among the matching images, each with the greatest creation timestamp of
\* the images of that date-version, strictly descending by date-version,
\* whatever the order of the image list.
C11_Original ==
    Extracted =>
        /\ OnePerDateVersion
        /\ \A i \in 1..Len(versionItems) :
               versionItems[i].Date = Latest(versionItems[i].Version)
        /\ StrictlyDescending
        /\ OrderIndependent

\* C11: the items ExtractVersions returns are one per date-version among the
\* matching images, each with ParseDate of the greatest creation timestamp of
\* the images of that date-version (the timestamp as "2006-01-02 15:04", or
\* itself when it is no timestamp), strictly descending by date-version,
\* whatever the order of the image list.
C11_LatestDateFormatted ==
    Extracted =>
        /\ OnePerDateVersion
        /\ \A i \in 1..Len(versionItems) :
               versionItems[i].Date = ParseDate(Latest(versionItems[i].Version))
        /\ StrictlyDescending
        /\ OrderIndependent

\* C11 happens: two date-versions, one of them on two images of different
\* creation timestamps, the later timestamp on the image listed first.
C11_Witness ==
    /\ Extracted
    /\ Len(versionItems) = 2
    /\ \E i, j \in Contributors(versionItems[1].Version) :
           /\ i < j
           /\ StrLess(availableAMIs[j].CreationDate, availableAMIs[i].CreationDate)


\* name is a name of the grammar, resolved or wildcard, for another k8s
\* version than k8s
ForOtherVersion(name, k8s) ==
    ~IsError(ParseAMIName(name)) /\ ParseAMIName(name).K8sVersion # k8s

\* name is not a domino-eks name at all
Unrelated(name) == ~HasPrefix(name, <<"d","o","m","i","n","o","-","e","k","s","-">>)

\* amis is empty or holds only images for other k8s versions and unrelated
\* images
NothingForVersion(amis, k8s) ==
    \A i \in 1..Len(amis) :
        ForOtherVersion(amis[i].Name, k8s) \/ Unrelated(amis[i].Name)

WithoutOtherVersions(amis, k8s) ==
    LET Keep(ami) == ~ForOtherVersion(ami.Name, k8s)
    IN  SelectSeq(amis, Keep)

-----------------------------------------------------------------------------
(* Records that do not parse, records without a term *)

HasTerm(nc) == Len(nc.AMISelectorTerms) > 0

ParsesRef(nc) == HasTerm(nc) /\ ~IsError(ParseAMIName(nc.AMISelectorTerms[1].Name))

FailsToParse(nc) == HasTerm(nc) /\ IsError(ParseAMIName(nc.AMISelectorTerms[1].Name))

\* main has left at "Could not determine k8s version"
NoVersionExit == pc = "exit1" /\ nodeClasses # <<>> /\ k8sVersion = <<>>

\* the dry-run loop passed over the records that fail to parse, reporting
\* them, and went on to the records after them
SkippedAndWentOn ==
    \A k \in 1..Len(nodeClasses) :
        /\ FailsToParse(nodeClasses[k]) =>
               /\ [name |-> nodeClasses[k].Name, why |-> "parse"] \in
                      {skipped[i] : i \in 1..Len(skipped)}
               /\ \A i \in 1..Len(changes) :
                      changes[i].nodeclassName # nodeClasses[k].Name
        /\ ParsesRef(nodeClasses[k]) =>
               \E i \in 1..Len(changes) : changes[i].nodeclassName = nodeClasses[k].Name

\* C13 as stated: whatever the list of records, the run does not end on a
\* reference that fails to parse; the record is skipped and the run goes on
\* with the other records.
C13_Original ==
    /\ ~(NoVersionExit /\ \E k \in 1..Len(nodeClasses) : FailsToParse(nodeClasses[k]))
    /\ Planned => SkippedAndWentOn

\* C13: when some record has a reference that parses, a record whose
\* reference fails to parse is skipped by the version detection, which takes
\* the k8s version of the first record that parses, and by the dry-run loop,
\* which reports it and goes on; the run ends at "Could not determine k8s
\* version" only when no record has a reference that parses.
C13_ParseFailureSkipped ==
    /\ NoVersionExit => \A k \in 1..Len(nodeClasses) : ~ParsesRef(nodeClasses[k])
    /\ pc = "owner" =>
           \E k \in 1..Len(nodeClasses) :
               /\ ParsesRef(nodeClasses[k])
               /\ \A j \in 1..(k - 1) : ~ParsesRef(nodeClasses[j])
               /\ k8sVersion = ParseAMIName(nodeClasses[k].AMISelectorTerms[1].Name).K8sVersion
    /\ Planned => SkippedAndWentOn

\* C13 happens: the first record fails to parse and the plan holds the second.
C13_Witness ==
    /\ Planned
    /\ Len(nodeClasses) = 2
    /\ FailsToParse(nodeClasses[1])
    /\ Len(changes) = 1
    /\ changes[1].nodeclassName = nodeClasses[2].Name
    /\ Len(skipped) = 1


\* the records of the run that have a term whose reference parses, in order
PlannableRecords == SelectSeq(nodeClasses, ParsesRef)

\* C14: the plan holds one item for each record with a selector term whose
\* reference parses, in the order of the records, its oldAMI the reference
\* the record has in the store; it holds nothing for a record without a term
\* or with a reference that fails to parse, and no record is skipped for
\* want of an entry in nodeclassMap.
C14_PlanMembership ==
    Planned =>
        /\ Len(changes) = Len(PlannableRecords)
        /\ \A i \in 1..Len(changes) :
               /\ changes[i].nodeclassName = PlannableRecords[i].Name
               /\ changes[i].oldAMI = PlannableRecords[i].AMISelectorTerms[1].Name
               /\ \E k \in 1..Len(store) :
                      /\ store[k].Name = changes[i].nodeclassName
                      /\ store[k].AMISelectorTerms[1].Name = changes[i].oldAMI
        /\ \A k \in 1..Len(nodeClasses) :
               ~ParsesRef(nodeClasses[k]) =>
                   \A i \in 1..Len(changes) :
                       changes[i].nodeclassName # nodeClasses[k].Name
        /\ \A i \in 1..Len(skipped) : skipped[i].why # "info"
        /\ DOMAIN nodeclassMap = {PlannableRecords[i].Name : i \in 1..Len(PlannableRecords)}

\* C14 happens: a plan of one item over a record without a term and a record
\* whose reference names no nodegroup.
C14_Witness ==
    /\ Planned
    /\ Len(nodeClasses) = 2
    /\ HasTerm(nodeClasses[1]) /\ ~HasGroup(nodeClasses[1].AMISelectorTerms[1].Name)
    /\ ParsesRef(nodeClasses[1])
    /\ ~HasTerm(nodeClasses[2])
    /\ Len(changes) = 1
    /\ skipped = <<>>


\* C15 as stated: over a list of records of which one at least has a
\* reference that parses, the run does not crash where it reads the owner,
\* the first record having a selector term or not.
C15_OwnerReadWithoutCrash ==
    pc = "panic" => ~\E k \in 1..Len(nodeClasses) : ParsesRef(nodeClasses[k])


-----------------------------------------------------------------------------
(* The plan and the catalog *)

\* C16 as stated: every item of a plan built for a date-version chosen from
\* the items of ExtractVersions has as newAMI the name of some image of the
\* list the run got from the catalog.
C16_NewNameInCatalog ==
    Planned =>
        \A i \in 1..Len(changes) :
            \E k \in 1..Len(availableAMIs) : availableAMIs[k].Name = changes[i].newAMI


\* C17 as stated: every image name that gives ExtractVersions a date-version
\* d for k8sVersion is a name ParseAMIName accepts, as a resolved name of
\* that k8s version and of date-version d.
C17_GrammarAgreement ==
    Extracted =>
        \A k \in 1..Len(availableAMIs) :
            LET matches == VersionMatches(availableAMIs[k].Name, k8sVersion)
                p       == ParseAMIName(availableAMIs[k].Name)
            IN  Len(matches) = 2 =>
                    /\ ~IsError(p)
                    /\ p.K8sVersion = k8sVersion
                    /\ p.Version = matches[2]

=============================================================================
